---- MODULE Spec2Model ----
(***************************************************************************)
(* The input-handling and completion engine of the console                 *)
(* (src/src/console.rs): the Startup systems of add_console_command, and   *)
(* one frame of console_ui: the toggle of the open flag by the keyboard    *)
(* events of the tick, then the Ctrl+C, Ctrl+L, text edit, Enter, Tab and  *)
(* Up/Down handlers of the open console.                                   *)
(*                                                                         *)
(* A string is a sequence of one-character strings, so that trimming,      *)
(* splitting, tokenizing and prefix search are computed character by       *)
(* character as the code computes them.  Indices of Vec and VecDeque are   *)
(* 0-based in the code; At(s, i) reads the element the code calls s[i].    *)
(***************************************************************************)
EXTENDS Integers, Sequences, FiniteSets, TLC

VARIABLES
    open,             \* console_open.open
    commands,         \* config.commands: the key set of the BTreeMap
    commands_trie,    \* config.commands_trie: the set of keys pushed into the trie
    history_size,     \* config.history_size
    arg_completions,  \* config.arg_completions: command name -> candidate list
    pending,          \* the Startup systems of each command added: 0 (none run), 1 (sys run), 2 (both run)
    buf,              \* state.buf
    scrollback,       \* state.scrollback
    history,          \* state.history (position k of the VecDeque is history[k + 1])
    history_index,    \* state.history_index
    completions,      \* state.completions
    command_entered,  \* the ConsoleCommandEntered events written by the last frame
    panicked,         \* a handler panicked (index out of bounds): the app is gone
    submitted,        \* the lines submitted non-blank, most recent first: the last history_size of them
    nsubmitted,       \* how many lines were submitted non-blank, counted up to history_size + 1
    last              \* the last frame with key events or the window shown: its pressed keys in
                      \* arrival order, the line its handlers found, the index before, its
                      \* keyboard events and whether another widget wanted the keyboard, and
                      \* how many frames in a row pressed Tab alone since the cycle was empty;
                      \* or the last run of receive_console_line: the lines it received;
                      \* or the last replacement of the configuration by its clone: the trie
                      \* of the configuration cloned

vars == <<open, commands, commands_trie, history_size, arg_completions, pending, buf,
          scrollback, history, history_index, completions, command_entered,
          panicked, submitted, nsubmitted, last>>

config_vars == <<commands, commands_trie, history_size, arg_completions, pending>>

----------------------------------------------------------------------------
(* Bounds of the model *)

MaxHistorySize == 2
MaxScrollback == 2
MaxPrinted == 1
MaxTabRun == 4

----------------------------------------------------------------------------
(* Characters and strings *)

(* the characters with no one-character spelling here *)
ESC == "ESC"
Backquote == "BQ"

Letters == <<"a", "b", "c", "d", "e", "f", "g", "h", "i", "j", "k", "l", "m",
             "n", "o", "p", "q", "r", "s", "t", "u", "v", "w", "x", "y", "z">>

(* the byte of a character *)
Others == ("\t" :> 9) @@ (ESC :> 27) @@ (" " :> 32) @@ ("\"" :> 34) @@ ("#" :> 35)
          @@ ("$" :> 36) @@ ("'" :> 39) @@ ("3" :> 51) @@ (":" :> 58) @@ ("I" :> 73)
          @@ ("[" :> 91) @@ ("\\" :> 92) @@ (Backquote :> 96)

ByteOf == Others @@ [c \in {Letters[i] : i \in 1..26} |->
                        96 + (CHOOSE i \in 1..26 : Letters[i] = c)]

CharCode(c) == ByteOf[c]

At(s, i) == s[i + 1]

is_whitespace(c) == c \in {" ", "\t"}

is_control(c) == CharCode(c) < 32 /\ ~is_whitespace(c)

EmptyStr == <<>>

starts_with(s, p) == Len(p) =< Len(s) /\ SubSeq(s, 1, Len(p)) = p

ends_with_space(s) == Len(s) > 0 /\ s[Len(s)] = " "

contains_space(s) == \E i \in 1..Len(s) : s[i] = " "

trim_is_empty(s) == \A i \in 1..Len(s) : is_whitespace(s[i])

RECURSIVE StrLess(_, _)
StrLess(a, b) ==
    IF b = <<>> THEN FALSE
    ELSE IF a = <<>> THEN TRUE
    ELSE IF CharCode(a[1]) # CharCode(b[1]) THEN CharCode(a[1]) < CharCode(b[1])
    ELSE StrLess(Tail(a), Tail(b))

RECURSIVE SortedKeys(_)
SortedKeys(S) ==
    IF S = {} THEN <<>>
    ELSE LET m == CHOOSE x \in S : \A y \in S \ {x} : StrLess(x, y)
         IN  <<m>> \o SortedKeys(S \ {m})

RECURSIVE split_whitespace(_)
split_whitespace(s) ==
    IF s = <<>> THEN <<>>
    ELSE IF is_whitespace(s[1]) THEN split_whitespace(Tail(s))
    ELSE LET stops == {i \in 1..Len(s) : is_whitespace(s[i])}
             n == IF stops = {} THEN Len(s) + 1
                  ELSE CHOOSE i \in stops : \A j \in stops : i =< j
         IN  <<SubSeq(s, 1, n - 1)>> \o split_whitespace(SubSeq(s, n, Len(s)))

(* StyledStr -> String (Display): the text with its ANSI escape sequences   *)
(* and control characters left out.  st is the state of the escape parser: *)
(* "ground", "escape" (after ESC) or "csi" (after ESC [).                   *)
RECURSIVE strip_str(_, _)
strip_str(s, st) ==
    IF s = <<>> THEN <<>>
    ELSE LET c == s[1]
             n == CharCode(c)
         IN  IF c = ESC THEN strip_str(Tail(s), "escape")
             ELSE IF st = "escape"
                  THEN IF c = "[" THEN strip_str(Tail(s), "csi")
                       ELSE IF n < 48 THEN strip_str(Tail(s), "escape")
                       ELSE strip_str(Tail(s), "ground")
             ELSE IF st = "csi"
                  THEN IF n < 64 THEN strip_str(Tail(s), "csi")
                       ELSE strip_str(Tail(s), "ground")
             ELSE IF is_control(c) THEN strip_str(Tail(s), "ground")
             ELSE <<c>> \o strip_str(Tail(s), "ground")

to_string(s) == strip_str(s, "ground")

(* String -> StyledStr (From<String>): the text as it is *)
into_styled(s) == s

----------------------------------------------------------------------------
(* The tokenizer: Shlex::new(&state.buf).collect::<Vec<_>>()               *)
(* POSIX-like word splitting.  An unterminated quote or a trailing         *)
(* backslash ends the iteration: the words read before it are what collect *)
(* returns.  i is the position of the next character to read.              *)

NoWord == [err |-> TRUE, word |-> <<>>, next |-> 0]

RECURSIVE parse_single(_, _, _)
parse_single(s, i, acc) ==
    IF i > Len(s) THEN NoWord
    ELSE IF s[i] = "'" THEN [err |-> FALSE, word |-> acc, next |-> i + 1]
    ELSE parse_single(s, i + 1, Append(acc, s[i]))

RECURSIVE parse_double(_, _, _)
parse_double(s, i, acc) ==
    IF i > Len(s) THEN NoWord
    ELSE IF s[i] = "\\"
         THEN IF i + 1 > Len(s) THEN NoWord
              ELSE IF s[i + 1] \in {"$", Backquote, "\"", "\\"}
                   THEN parse_double(s, i + 2, Append(acc, s[i + 1]))
                   ELSE parse_double(s, i + 2, acc \o <<"\\", s[i + 1]>>)
    ELSE IF s[i] = "\"" THEN [err |-> FALSE, word |-> acc, next |-> i + 1]
    ELSE parse_double(s, i + 1, Append(acc, s[i]))

RECURSIVE parse_word(_, _, _)
parse_word(s, i, acc) ==
    IF i > Len(s) THEN [err |-> FALSE, word |-> acc, next |-> i]
    ELSE IF s[i] = "\""
         THEN LET q == parse_double(s, i + 1, acc)
              IN  IF q.err THEN NoWord ELSE parse_word(s, q.next, q.word)
    ELSE IF s[i] = "'"
         THEN LET q == parse_single(s, i + 1, acc)
              IN  IF q.err THEN NoWord ELSE parse_word(s, q.next, q.word)
    ELSE IF s[i] = "\\"
         THEN IF i + 1 > Len(s) THEN NoWord
              ELSE parse_word(s, i + 2, Append(acc, s[i + 1]))
    ELSE IF is_whitespace(s[i]) THEN [err |-> FALSE, word |-> acc, next |-> i + 1]
    ELSE parse_word(s, i + 1, Append(acc, s[i]))

RECURSIVE shlex_next(_, _)
shlex_next(s, i) ==
    IF i > Len(s) THEN <<>>
    ELSE IF is_whitespace(s[i]) THEN shlex_next(s, i + 1)
    ELSE IF s[i] = "#" THEN <<>>
    ELSE LET w == parse_word(s, i, <<>>)
         IN  IF w.err THEN <<>> ELSE <<w.word>> \o shlex_next(s, w.next)

Shlex(s) == shlex_next(s, 1)

(* whether the tokenizer ran into malformed quoting or escaping (had_error) *)
RECURSIVE shlex_error(_, _)
shlex_error(s, i) ==
    IF i > Len(s) THEN FALSE
    ELSE IF is_whitespace(s[i]) THEN shlex_error(s, i + 1)
    ELSE IF s[i] = "#" THEN FALSE
    ELSE LET w == parse_word(s, i, <<>>)
         IN  IF w.err THEN TRUE ELSE shlex_error(s, w.next)

had_error(s) == shlex_error(s, 1)

----------------------------------------------------------------------------
(* The prefix index: Trie::predictive_search, every key with the prefix,   *)
(* in the order of the trie's traversal (byte order).                      *)

predictive_search(keys, w) == SortedKeys({k \in keys : starts_with(k, w)})

(* BTreeMap::keys(): the keys in order *)
command_keys(cs) == SortedKeys(cs)

Range(q) == {q[i] : i \in 1..Len(q)}

(* Vec::contains and Iterator::position: the first position holding x *)
contains(q, x) == \E i \in 1..Len(q) : q[i] = x

position(q, x) == (CHOOSE i \in 1..Len(q) : q[i] = x /\ \A j \in 1..(i - 1) : q[j] # x) - 1

(* fold(String::new(), |acc, x| acc + x + " "): every word followed by a space *)
RECURSIVE fold_words(_)
fold_words(ws) ==
    IF ws = <<>> THEN <<>> ELSE ws[1] \o <<" ">> \o fold_words(Tail(ws))

Front(q) == SubSeq(q, 1, Len(q) - 1)

----------------------------------------------------------------------------
(* The configuration and the lines of the model *)

cmd_list == <<"l", "i", "s", "t">>
cmd_load == <<"l", "o", "a", "d">>
cmd_log == <<"l", "o", "g">>

(* config.symbol *)
symbol == <<"$", " ">>

(* config.keys *)
config_keys == <<"Backquote">>

InvalidCommand == <<"e", "r", "r", "o", "r", ":", " ", "I", "n", "v", "a", "l", "i", "d",
                    " ", "c", "o", "m", "m", "a", "n", "d">>

ArgTable == (cmd_log :> <<<<"h", "i">>, <<"h", "o">>>>)
            @@ (cmd_load :> <<<<"a">>, <<"a">>, <<"b">>>>)
            @@ (cmd_list :> <<<<"a", " ", "b">>, <<"c">>>>)

line_blank == <<" ">>
line_lo == <<"l", "o">>
line_foo == <<"f", "o", "o">>
line_log_h_3 == <<"l", "o", "g", " ", "h", " ", "3">>
line_log_quote == <<"l", "o", "g", " ", "\"", "h">>
line_esc == <<ESC, "[", "m", "p">>
line_hash == <<"#">>
line_ok == <<"o", "k">>

line_l == <<"l">>
line_log_h == <<"l", "o", "g", " ", "h">>
line_load_ == <<"l", "o", "a", "d", " ">>
line_log_ == <<"l", "o", "g", " ">>
line_log__ == <<"l", "o", "g", " ", " ">>
line_list_ == <<"l", "i", "s", "t", " ">>

(* what the text field is edited to in a frame: the lines of the history   *)
(* runs, of the dispatch runs and of the completion runs                   *)
TypedLines == {line_blank, line_foo, line_esc}

CommandLines == {line_blank, line_foo, line_log_h_3, line_log_quote, line_hash}

PartialLines == {line_l, line_lo, line_foo, line_load_, line_log_, line_log_h}

(* the lines of PrintConsoleLine events: plain, styled *)
PrintLines == {line_ok, line_esc}

ArgumentLines == {line_lo, line_foo, line_load_, line_log_, line_log__, line_log_h}

----------------------------------------------------------------------------
(* console_ui: the handlers of one frame, on the record s of the fields of *)
(* ConsoleState, the events written and whether the frame panicked or      *)
(* returned early.                                                         *)

pop_back(q) == SubSeq(q, 1, Len(q) - 1)

insert_1(q, x) == <<q[1], x>> \o Tail(q)

HandleCtrlC(s) == [s EXCEPT !.buf = EmptyStr, !.returned = TRUE]

HandleCtrlL(s) == [s EXCEPT !.scrollback = <<>>, !.returned = TRUE]

TextEdit(s, in) == IF in.typed THEN [s EXCEPT !.buf = in.text] ELSE s

(* variants of Dispatch with a slip: the command name left among the args, *)
(* no error line for an unknown command                                    *)
DispatchKeepName(s, args) ==
    IF args # <<>>
    THEN LET command_name == args[1]
         IN  IF command_name \in commands
             THEN [s EXCEPT !.events =
                       Append(@, [command_name |-> command_name, args |-> args])]
             ELSE [s EXCEPT !.scrollback = Append(@, into_styled(InvalidCommand))]
    ELSE s

DispatchSilent(s, args) ==
    IF args # <<>> /\ args[1] \in commands
    THEN [s EXCEPT !.events = Append(@, [command_name |-> args[1], args |-> Tail(args)])]
    ELSE s

Dispatch(s, args) ==
    IF args # <<>>
    THEN LET command_name == args[1]
         IN  IF command_name \in commands
             THEN [s EXCEPT !.events =
                       Append(@, [command_name |-> command_name, args |-> Tail(args)])]
             ELSE [s EXCEPT !.scrollback = Append(@, into_styled(InvalidCommand))]
    ELSE s

(* variants of HistoryInsert with a slip: no eviction, insertion at the   *)
(* back, the index left where it was                                       *)
HistoryInsertNoEvict(s) ==
    [s EXCEPT !.history = insert_1(s.history, into_styled(s.buf)), !.history_index = 0]

HistoryInsertAtBack(s) ==
    LET inserted == Append(s.history, into_styled(s.buf))
    IN  [s EXCEPT !.history = IF Len(inserted) > history_size + 1
                                THEN <<inserted[1]>> \o Tail(Tail(inserted)) ELSE inserted,
                  !.history_index = 0]

HistoryInsertKeepIndex(s) ==
    LET inserted == insert_1(s.history, into_styled(s.buf))
    IN  [s EXCEPT !.history = IF Len(inserted) > history_size + 1
                                THEN pop_back(inserted) ELSE inserted]

HistoryInsert(s) ==
    LET inserted == insert_1(s.history, into_styled(s.buf))
    IN  [s EXCEPT !.history = IF Len(inserted) > history_size + 1
                                THEN pop_back(inserted) ELSE inserted,
                  !.history_index = 0]

(* a variant of HandleEnter with a slip: the line is not trimmed *)
HandleEnterUntrimmed(s) ==
    IF s.buf = EmptyStr
    THEN [s EXCEPT !.scrollback = Append(@, into_styled(EmptyStr))]
    ELSE LET echoed == [s EXCEPT !.scrollback = Append(@, into_styled(symbol \o s.buf))]
             stored == HistoryInsert(echoed)
             sent == Dispatch(stored, Shlex(s.buf))
         IN  [sent EXCEPT !.buf = EmptyStr]

(* a variant of HandleEnter with a slip: the echo is pushed last *)
HandleEnterEchoLast(s) ==
    IF trim_is_empty(s.buf)
    THEN [s EXCEPT !.scrollback = Append(@, into_styled(EmptyStr))]
    ELSE LET stored == HistoryInsert(s)
             sent == Dispatch(stored, Shlex(s.buf))
         IN  [sent EXCEPT !.scrollback = Append(@, into_styled(symbol \o s.buf)),
                          !.buf = EmptyStr]

HandleEnter(s) ==
    IF trim_is_empty(s.buf)
    THEN [s EXCEPT !.scrollback = Append(@, into_styled(EmptyStr))]
    ELSE LET echoed == [s EXCEPT !.scrollback = Append(@, into_styled(symbol \o s.buf))]
             stored == HistoryInsert(echoed)
             sent == Dispatch(stored, Shlex(s.buf))
         IN  [sent EXCEPT !.buf = EmptyStr]

TabCycle(s, line_words, target_word) ==
    LET i == position(s.completions, target_word)
        full_word == IF i + 1 < Len(s.completions) THEN At(s.completions, i + 1)
                     ELSE At(s.completions, 0)
    IN  [s EXCEPT !.buf = fold_words(Front(line_words)) \o full_word]

TabArgs(s, line_words, target_word) ==
    IF line_words = <<>> THEN [s EXCEPT !.returned = TRUE]
    ELSE IF At(line_words, 0) \notin DOMAIN arg_completions THEN [s EXCEPT !.returned = TRUE]
    ELSE LET candidates == arg_completions[At(line_words, 0)]
         IN  IF ends_with_space(s.buf)
             THEN IF candidates # <<>>
                  THEN [s EXCEPT !.completions = candidates,
                                 !.buf = fold_words(line_words) \o At(candidates, 0)]
                  ELSE s
             ELSE IF target_word = EmptyStr THEN [s EXCEPT !.panicked = TRUE]
             ELSE LET found == predictive_search(Range(candidates), target_word)
                  IN  IF found # <<>>
                      THEN [s EXCEPT !.completions = found,
                                     !.buf = fold_words(Front(line_words)) \o At(found, 0)]
                      ELSE s

TabCommands(s, target_word) ==
    IF target_word = EmptyStr
    THEN LET all == command_keys(commands)
         IN  IF all = <<>> THEN [s EXCEPT !.completions = all, !.panicked = TRUE]
             ELSE [s EXCEPT !.completions = all, !.buf = At(all, 0)]
    ELSE LET found == predictive_search(commands_trie, target_word)
         IN  IF found # <<>>
             THEN [s EXCEPT !.completions = found, !.buf = At(found, 0)]
             ELSE s

HandleTab(s) ==
    LET line_words == split_whitespace(s.buf)
        target_word == IF line_words = <<>> THEN EmptyStr ELSE line_words[Len(line_words)]
        target_is_arg == contains_space(s.buf)
    IN  IF contains(s.completions, target_word) THEN TabCycle(s, line_words, target_word)
        ELSE IF target_is_arg THEN TabArgs(s, line_words, target_word)
        ELSE TabCommands(s, target_word)

ResetCompletions(s, in) ==
    IF "Tab" \notin in.down /\ in.down # {} THEN [s EXCEPT !.completions = <<>>] ELSE s

(* a variant of HandleUp with a slip: the line is saved where the index goes *)
HandleUpSavesAtIndex(s) ==
    LET index == s.history_index + 1
        saved == IF s.history_index = 0 /\ ~trim_is_empty(s.buf)
                 THEN [s EXCEPT !.history[index + 1] = into_styled(s.buf)] ELSE s
    IN  [saved EXCEPT !.history_index = index, !.buf = to_string(At(saved.history, index))]

HandleUp(s) ==
    LET saved == IF s.history_index = 0 /\ ~trim_is_empty(s.buf)
                 THEN [s EXCEPT !.history[1] = into_styled(s.buf)] ELSE s
        index == s.history_index + 1
    IN  [saved EXCEPT !.history_index = index, !.buf = to_string(At(saved.history, index))]

HandleDown(s) ==
    LET index == s.history_index - 1
    IN  [s EXCEPT !.history_index = index, !.buf = to_string(At(s.history, index))]

HandleHistory(s, in, has_focus) ==
    IF has_focus /\ "ArrowUp" \in in.keys /\ Len(s.history) > 1
       /\ s.history_index < Len(s.history) - 1
    THEN HandleUp(s)
    ELSE IF has_focus /\ "ArrowDown" \in in.keys /\ s.history_index > 0
    THEN HandleDown(s)
    ELSE s

(* The single-line text field gives up the focus on Enter (lost_focus) and *)
(* has it otherwise: the frame asks for it again at its end.               *)
lost_focus(in) == "Enter" \in in.keys

has_focus(in) == "Enter" \notin in.keys

console_ui(s, in) ==
    IF "CtrlC" \in in.keys THEN HandleCtrlC(s)
    ELSE IF "CtrlL" \in in.keys THEN HandleCtrlL(s)
    ELSE LET edited == TextEdit(s, in)
             entered == IF lost_focus(in) THEN HandleEnter(edited) ELSE edited
             tabbed == IF "Tab" \in in.keys THEN HandleTab(entered)
                       ELSE ResetCompletions(entered, in)
         IN  IF tabbed.returned \/ tabbed.panicked THEN tabbed
             ELSE HandleHistory(tabbed, in, has_focus(in))

----------------------------------------------------------------------------
(* The state machine *)

NoFrame == [keys |-> {}, queue |-> <<>>, line |-> EmptyStr, index |-> 0,
            events |-> <<>>, wants |-> FALSE, run |-> 0, printed |-> <<>>,
            cloned |-> FALSE, original |-> {}]

(* The record of a frame under the configuration in use: whether it is a  *)
(* clone, and the trie of the configuration it was cloned from            *)
SameConfiguration == [NoFrame EXCEPT !.cloned = last.cloned, !.original = last.original]

(* The state after construction: ConsoleConfiguration::default() with the  *)
(* history size and the argument completions of the application, the       *)
(* commands cmds still to be added, and ConsoleState::default().           *)
InitOf(cmds, sizes) ==
    /\ open = FALSE
    /\ commands = {}
    /\ commands_trie = {}
    /\ history_size \in sizes
    /\ arg_completions = ArgTable
    /\ pending = [c \in cmds |-> 0]
    /\ buf = EmptyStr
    /\ scrollback = <<>>
    /\ history = <<into_styled(EmptyStr)>>
    /\ history_index = 0
    /\ completions = <<>>
    /\ command_entered = <<>>
    /\ panicked = FALSE
    /\ submitted = <<>>
    /\ nsubmitted = 0
    /\ last = NoFrame

Init == InitOf({cmd_log}, 0..MaxHistorySize)

console_vars == <<open, buf, scrollback, history, history_index, completions,
                  command_entered, panicked, submitted, nsubmitted, last>>

(* add_console_command: the system that registers command c *)
AddCommandSys(c) ==
    /\ pending[c] = 0
    /\ commands' = commands \cup {c}
    /\ pending' = [pending EXCEPT ![c] = 1]
    /\ UNCHANGED <<commands_trie, history_size, arg_completions, console_vars>>

(* a variant of BuildCommandTrie with a slip: the trie of the one command *)
BuildCommandTrieOfOne(c) ==
    /\ pending[c] = 1
    /\ commands_trie' = {c}
    /\ pending' = [pending EXCEPT ![c] = 2]
    /\ UNCHANGED <<commands, history_size, arg_completions, console_vars>>

(* a variant of BuildCommandTrie with a slip: a trie once built is kept *)
BuildCommandTrieOnce(c) ==
    /\ pending[c] = 1
    /\ commands_trie' = IF commands_trie = {} THEN commands ELSE commands_trie
    /\ pending' = [pending EXCEPT ![c] = 2]
    /\ UNCHANGED <<commands, history_size, arg_completions, console_vars>>

(* add_console_command: the system added with c that builds the trie, chained after *)
BuildCommandTrie(c) ==
    /\ pending[c] = 1
    /\ commands_trie' = commands
    /\ pending' = [pending EXCEPT ![c] = 2]
    /\ UNCHANGED <<commands, history_size, arg_completions, console_vars>>

StartupDone == \A c \in DOMAIN pending : pending[c] = 2

Take(q, n) == SubSeq(q, 1, IF n < Len(q) THEN n ELSE Len(q))

(* the line the key handlers of a frame find: the text field's, after its edit *)
LineFound(in) ==
    IF in.typed /\ "CtrlC" \notin in.keys /\ "CtrlL" \notin in.keys THEN in.text ELSE buf

(* a frame that submits a non-blank line *)
Submits(in) ==
    /\ "Enter" \in in.keys
    /\ "CtrlC" \notin in.keys
    /\ "CtrlL" \notin in.keys
    /\ ~trim_is_empty(LineFound(in))

(* a variant of console_key_pressed with a slip: the state of the key is not read *)
console_key_any_state(keyboard_input, configured_keys) ==
    \E i \in 1..Len(configured_keys) : configured_keys[i] = keyboard_input.key_code

(* console_key_pressed: a press of one of the configured keys *)
console_key_pressed(keyboard_input, configured_keys) ==
    IF keyboard_input.state # "Pressed" THEN FALSE
    ELSE \E i \in 1..Len(configured_keys) : configured_keys[i] = keyboard_input.key_code

(* how many frames in a row, this one included, pressed Tab alone, the     *)
(* first of them finding the completion cycle empty; 0 when this frame    *)
(* does not, or past MaxTabRun                                            *)
TabRun(in) ==
    IF in.keys # {"Tab"} \/ in.typed THEN 0
    ELSE IF completions = <<>> THEN 1
    ELSE IF last.run >= 1 /\ last.run < MaxTabRun THEN last.run + 1
    ELSE 0

(* the window of the open console: the handlers of the frame *)
ShowWindow(in) ==
    /\ \E t \in {console_ui([buf |-> buf, scrollback |-> scrollback, history |-> history,
                             history_index |-> history_index, completions |-> completions,
                             events |-> <<>>, panicked |-> FALSE, returned |-> FALSE], in)} :
           /\ Len(t.scrollback) =< MaxScrollback
           /\ buf' = t.buf
           /\ scrollback' = t.scrollback
           /\ history' = t.history
           /\ history_index' = t.history_index
           /\ completions' = t.completions
           /\ command_entered' = t.events
           /\ panicked' = t.panicked
    /\ submitted' = IF Submits(in) THEN Take(<<LineFound(in)>> \o submitted, history_size)
                    ELSE submitted
    /\ nsubmitted' = IF Submits(in) /\ nsubmitted =< history_size THEN nsubmitted + 1
                     ELSE nsubmitted
    /\ last' = [SameConfiguration EXCEPT !.keys = in.keys, !.queue = in.queue,
                                !.line = LineFound(in), !.index = history_index,
                                !.events = in.events, !.wants = in.wants,
                                !.run = TabRun(in)]

(* the closed console: no window, no handler runs *)
NoWindow(in) ==
    /\ command_entered' = <<>>
    /\ last' = IF in.events = <<>> THEN last
               ELSE [SameConfiguration EXCEPT !.line = buf, !.index = history_index,
                                    !.events = in.events, !.wants = in.wants]
    /\ UNCHANGED <<buf, scrollback, history, history_index, completions, panicked,
                   submitted, nsubmitted>>

(* One frame of console_ui, on the input in: the keyboard events of the   *)
(* tick open or close the console, then the open console shows its window *)
Frame(in) ==
    /\ ~panicked
    /\ LET pressed == \E i \in 1..Len(in.events) :
                          console_key_pressed(in.events[i], config_keys)
       IN  open' = IF pressed /\ (open \/ ~in.wants) THEN ~open ELSE open
    /\ IF open' THEN ShowWindow(in) ELSE NoWindow(in)
    /\ UNCHANGED config_vars

(* a variant of receive_console_line with a slip: the line is pushed as   *)
(* the text it displays                                                   *)
receive_console_line_text(events) ==
    /\ scrollback' = scrollback \o [i \in 1..Len(events) |-> into_styled(to_string(events[i]))]
    /\ last' = [SameConfiguration EXCEPT !.line = buf, !.index = history_index, !.printed = events]
    /\ UNCHANGED <<config_vars, open, buf, history, history_index, completions,
                   command_entered, panicked, submitted, nsubmitted>>

(* receive_console_line: every PrintConsoleLine event read is pushed *)
receive_console_line(events) ==
    /\ scrollback' = scrollback \o events
    /\ last' = [SameConfiguration EXCEPT !.line = buf, !.index = history_index, !.printed = events]
    /\ UNCHANGED <<config_vars, open, buf, history, history_index, completions,
                   command_entered, panicked, submitted, nsubmitted>>

(* the keys held down in a frame: none, some but not Tab, Tab among them *)
Downs == {{}, {"Other"}, {"Tab", "Other"}}

(* the keyboard events of a tick with a press of the toggle key *)
TogglePress == <<[key_code |-> "Backquote", state |-> "Pressed"]>>

(* In these frames the console is the one widget with a text field: the   *)
(* keyboard is wanted when the console is open.                           *)
KeyFrame(k) ==
    \E d \in Downs : Frame([keys |-> {k}, queue |-> <<k>>, typed |-> FALSE, text |-> EmptyStr,
                            down |-> d, events |-> <<>>, wants |-> open])

TypeTextOf(lines) ==
    \E x \in lines, d \in Downs :
        Frame([keys |-> {}, queue |-> <<>>, typed |-> TRUE, text |-> x,
               down |-> d, events |-> <<>>, wants |-> open])

(* The frames run in Update, after every Startup system *)
TypeText ==
    /\ StartupDone
    /\ TypeTextOf(TypedLines)

PressEnter ==
    /\ StartupDone
    /\ KeyFrame("Enter")

PressTab ==
    /\ StartupDone
    /\ KeyFrame("Tab")

PressUp ==
    /\ StartupDone
    /\ KeyFrame("ArrowUp")

PressDown ==
    /\ StartupDone
    /\ KeyFrame("ArrowDown")

PressCtrlC ==
    /\ StartupDone
    /\ KeyFrame("CtrlC")

PressCtrlL ==
    /\ StartupDone
    /\ KeyFrame("CtrlL")

(* a frame with no key pressed: keys are held, or none *)
HoldKeys ==
    /\ StartupDone
    /\ \E d \in Downs : Frame([keys |-> {}, queue |-> <<>>, typed |-> FALSE, text |-> EmptyStr,
                                down |-> d, events |-> <<>>, wants |-> open])

(* a tick with a press of the toggle key *)
PressToggle ==
    /\ StartupDone
    /\ \E d \in Downs : Frame([keys |-> {}, queue |-> <<>>, typed |-> FALSE, text |-> EmptyStr,
                                down |-> d, events |-> TogglePress, wants |-> open])

RegisterCommand == \E c \in DOMAIN pending : AddCommandSys(c)

BuildTrie == \E c \in DOMAIN pending : BuildCommandTrie(c)

Next ==
    \/ RegisterCommand
    \/ BuildTrie
    \/ TypeText
    \/ PressEnter
    \/ PressTab
    \/ PressUp
    \/ PressDown
    \/ PressCtrlC
    \/ PressCtrlL
    \/ HoldKeys
    \/ PressToggle

Spec == Init /\ [][Next]_vars

(* The dispatch runs: lines of commands, known, unknown and malformed *)
InitDispatch == InitOf({cmd_log}, 0..(MaxHistorySize - 1))

TypeCommandLine ==
    /\ StartupDone
    /\ TypeTextOf(CommandLines)

NextDispatch ==
    \/ RegisterCommand
    \/ BuildTrie
    \/ TypeCommandLine
    \/ PressEnter
    \/ PressTab
    \/ PressUp
    \/ PressDown
    \/ PressCtrlC
    \/ PressCtrlL
    \/ HoldKeys
    \/ PressToggle

SpecDispatch == InitDispatch /\ [][NextDispatch]_vars

(* The completion runs: three commands and partial lines *)
InitTab == InitOf({cmd_list, cmd_load, cmd_log}, 0..(MaxHistorySize - 1))

TypePartialLine ==
    /\ StartupDone
    /\ TypeTextOf(PartialLines)

NextTab ==
    \/ RegisterCommand
    \/ BuildTrie
    \/ TypePartialLine
    \/ PressTab
    \/ PressCtrlC
    \/ HoldKeys
    \/ PressToggle

SpecTab == InitTab /\ [][NextTab]_vars

(* The completion runs of every registry: no command, one, three; the     *)
(* argument completions hold candidates of load in each of them           *)
Registries == {{}, {cmd_log}, {cmd_list, cmd_load, cmd_log}}

InitComplete == \E cmds \in Registries : InitOf(cmds, {MaxHistorySize})

TypeArgumentLine ==
    /\ StartupDone
    /\ TypeTextOf(ArgumentLines)

NextComplete ==
    \/ RegisterCommand
    \/ BuildTrie
    \/ TypeArgumentLine
    \/ PressTab
    \/ PressCtrlC
    \/ PressCtrlL
    \/ HoldKeys
    \/ PressToggle

SpecComplete == InitComplete /\ [][NextComplete]_vars

(* The toggle runs: ticks with every kind of keyboard event, pressed or   *)
(* released, of the toggle key or of another, while another widget wants  *)
(* the keyboard or none does                                              *)
KeyboardInput(key_code, state) == [key_code |-> key_code, state |-> state]

TickEvents ==
    {<<KeyboardInput("Backquote", "Pressed")>>,
     <<KeyboardInput("Backquote", "Released")>>,
     <<KeyboardInput("KeyA", "Pressed")>>,
     <<KeyboardInput("KeyA", "Released"), KeyboardInput("Backquote", "Released")>>,
     <<KeyboardInput("KeyA", "Pressed"), KeyboardInput("Backquote", "Pressed")>>,
     <<KeyboardInput("Backquote", "Pressed"), KeyboardInput("Backquote", "Pressed")>>,
     <<KeyboardInput("Backquote", "Pressed"), KeyboardInput("Backquote", "Released")>>}

KeyboardEvents ==
    /\ StartupDone
    /\ \E ev \in TickEvents, w \in BOOLEAN :
           Frame([keys |-> {}, queue |-> <<>>, typed |-> FALSE, text |-> EmptyStr,
                  down |-> {}, events |-> ev, wants |-> w])

InitToggle == InitOf({cmd_log}, {MaxHistorySize - 1})

NextToggle ==
    \/ RegisterCommand
    \/ BuildTrie
    \/ KeyboardEvents
    \/ TypeText
    \/ PressEnter

SpecToggle == InitToggle /\ [][NextToggle]_vars

(* The print runs: lines of commands submitted, lines received from the   *)
(* PrintConsoleLine events, one or two in a run of the system             *)
PrintEvents ==
    {<<x>> : x \in PrintLines} \cup {<<x, y>> : x \in PrintLines, y \in PrintLines}

ReceiveConsoleLine ==
    /\ StartupDone
    /\ ~panicked
    /\ \E events \in PrintEvents :
           /\ Len(scrollback) + Len(events) =< MaxScrollback + MaxPrinted
           /\ receive_console_line(events)

PrintCommandLines == {line_foo, line_log_h_3}

TypePrintCommandLine ==
    /\ StartupDone
    /\ TypeTextOf(PrintCommandLines)

InitPrint == InitOf({cmd_log}, {MaxHistorySize - 1})

NextPrint ==
    \/ RegisterCommand
    \/ BuildTrie
    \/ TypePrintCommandLine
    \/ PressEnter
    \/ PressCtrlL
    \/ PressToggle
    \/ ReceiveConsoleLine

SpecPrint == InitPrint /\ [][NextPrint]_vars

(* impl Clone for ConsoleConfiguration: every field is copied but the     *)
(* trie, which is built anew from nothing                                 *)
clone(self) ==
    [commands |-> self.commands,
     history_size |-> self.history_size,
     arg_completions |-> self.arg_completions,
     commands_trie |-> {}]

(* The application replaces the configuration resource with its clone    *)
CloneConfiguration ==
    /\ StartupDone
    /\ ~panicked
    /\ ~last.cloned
    /\ \E c \in {clone([commands |-> commands, history_size |-> history_size,
                         arg_completions |-> arg_completions,
                         commands_trie |-> commands_trie])} :
          /\ commands' = c.commands
          /\ history_size' = c.history_size
          /\ arg_completions' = c.arg_completions
          /\ commands_trie' = c.commands_trie
    /\ last' = [NoFrame EXCEPT !.line = buf, !.index = history_index,
                               !.cloned = TRUE, !.original = commands_trie]
    /\ UNCHANGED <<pending, open, buf, scrollback, history, history_index, completions,
                   command_entered, panicked, submitted, nsubmitted>>

(* The runs under a configuration and under its clone: command names     *)
(* completed with Tab                                                     *)
InitClone == InitOf({cmd_list, cmd_load, cmd_log}, {MaxHistorySize - 1})

NextClone ==
    \/ RegisterCommand
    \/ BuildTrie
    \/ CloneConfiguration
    \/ TypePartialLine
    \/ PressTab
    \/ PressToggle

SpecClone == InitClone /\ [][NextClone]_vars

(* The cycling runs: Tab pressed again and again on the lines of the      *)
(* three commands, whose candidate lists are plain, with a repeated       *)
(* entry, with an entry of two words                                      *)
CycleLines == {line_lo, line_log_, line_load_, line_list_}

TypeCycleLine ==
    /\ StartupDone
    /\ TypeTextOf(CycleLines)

InitCycle == InitOf({cmd_list, cmd_load, cmd_log}, {MaxHistorySize - 1})

NextCycle ==
    \/ RegisterCommand
    \/ BuildTrie
    \/ TypeCycleLine
    \/ PressTab
    \/ PressToggle

SpecCycle == InitCycle /\ [][NextCycle]_vars

(* The runs of frames with two keys pressed in one tick, in the order of  *)
(* their arrival                                                          *)
ConsoleKeys == {"Enter", "Tab", "ArrowUp", "ArrowDown", "CtrlC", "CtrlL"}

KeysLines == {line_lo, line_foo}

InitKeys == InitOf({cmd_log}, {MaxHistorySize - 1})

TypeKeysLine ==
    /\ StartupDone
    /\ TypeTextOf(KeysLines)

PressTwoKeys ==
    /\ StartupDone
    /\ \E k1 \in ConsoleKeys, k2 \in ConsoleKeys, d \in Downs :
           /\ k1 # k2
           /\ Frame([keys |-> {k1, k2}, queue |-> <<k1, k2>>, typed |-> FALSE,
                     text |-> EmptyStr, down |-> d, events |-> <<>>, wants |-> open])

NextKeys ==
    \/ RegisterCommand
    \/ BuildTrie
    \/ TypeKeysLine
    \/ PressTwoKeys
    \/ PressToggle

SpecKeys == InitKeys /\ [][NextKeys]_vars

----------------------------------------------------------------------------
(* The claims *)

Min(a, b) == IF a < b THEN a ELSE b

(* the frame of this step pressed key k alone *)
Pressed(k) == last'.keys = {k}

(* the frame of this step submitted the non-blank line last'.line *)
Submitted == Pressed("Enter") /\ ~trim_is_empty(last'.line)

(* C1: the history never holds more than history_size + 1 entries; a       *)
(* submission inserts the line at position 1 and, when that is one entry   *)
(* too many, drops the entry at the tail, the live slot 0 staying as it is *)
C1_HistoryBounded ==
    /\ Len(history) =< history_size + 1
    /\ [][/\ Len(history') =< history_size + 1
          /\ Submitted =>
                /\ history'[1] = history[1]
                /\ history' = Take(<<history[1], last'.line>> \o Tail(history),
                                   history_size + 1)]_vars

C1_Witness ==
    /\ last.keys = {"Enter"}
    /\ history_size = 2
    /\ nsubmitted = history_size + 1
    /\ Len(history) = history_size + 1
    /\ history[2] = last.line

(* C2: the entries 1..len-1 of the history are the min(n, history_size)    *)
(* lines submitted last, the most recent first, a repeated line each time  *)
C2_RecentSubmissions ==
    /\ Tail(history) = submitted
    /\ Len(history) = 1 + Min(nsubmitted, history_size)

C2_Witness ==
    /\ history_size = 2
    /\ nsubmitted = history_size + 1
    /\ Len(history) = 3
    /\ history[2] # history[3]
    /\ history[2] = last.line
    /\ last.keys = {"Enter"}

(* C3: the history is never empty and history_index stays within           *)
(* 0..len-1: Up adds one only below len-1, Down takes one only above 0,    *)
(* a non-blank submission sets it to 0                                     *)
C3_IndexInRange ==
    /\ Len(history) >= 1
    /\ history_index \in 0..(Len(history) - 1)
    /\ [][/\ Len(history') >= 1
          /\ history_index' \in 0..(Len(history') - 1)
          /\ Pressed("ArrowUp") =>
                history_index' = IF history_index < Len(history) - 1
                                 THEN history_index + 1 ELSE history_index
          /\ Pressed("ArrowDown") =>
                history_index' = IF history_index > 0
                                 THEN history_index - 1 ELSE history_index
          /\ Submitted => history_index' = 0]_vars

C3_Witness ==
    /\ last.keys = {"ArrowUp"}
    /\ last.index = 1
    /\ history_index = 2
    /\ Len(history) = 3

(* C4: with history_index 0 and a non-blank line x in the text field, Up   *)
(* and then Down leave the text field holding x                            *)
C4_UpDownRestores ==
    [][(/\ last.keys = {"ArrowUp"}
        /\ last.index = 0
        /\ ~trim_is_empty(last.line)
        /\ Pressed("ArrowDown"))
       => buf' = last.line]_vars

(* the tokens of the line submitted in this step *)
Tokens == Shlex(last'.line)

(* C5: a submitted line whose first token is a registered command writes   *)
(* exactly one event, of the first token and the other tokens in order,    *)
(* pushes the echo and no error line, and clears the text field            *)
C5_KnownCommandDispatched ==
    [][(Submitted /\ Tokens # <<>> /\ Tokens[1] \in commands)
       => /\ command_entered' = <<[command_name |-> Tokens[1], args |-> Tail(Tokens)]>>
          /\ scrollback' = Append(scrollback, symbol \o last'.line)
          /\ buf' = EmptyStr]_vars

C5_Witness ==
    /\ last.keys = {"Enter"}
    /\ last.line = line_log_h_3
    /\ command_entered = <<[command_name |-> cmd_log, args |-> <<<<"h">>, <<"3">>>>]>>
    /\ scrollback = <<symbol \o line_log_h_3>>
    /\ buf = EmptyStr

(* C6: a submitted line whose first token is no registered command writes  *)
(* no event, pushes the echo and then one invalid-command line, clears the *)
(* text field and leaves the console running                               *)
C6_UnknownCommandReported ==
    [][(Submitted /\ Tokens # <<>> /\ Tokens[1] \notin commands)
       => /\ command_entered' = <<>>
          /\ scrollback' = scrollback \o <<symbol \o last'.line, InvalidCommand>>
          /\ buf' = EmptyStr
          /\ ~panicked']_vars

C6_Witness ==
    /\ last.keys = {"Enter"}
    /\ last.line = line_foo
    /\ commands = {cmd_log}
    /\ command_entered = <<>>
    /\ scrollback = <<symbol \o line_foo, InvalidCommand>>
    /\ buf = EmptyStr
    /\ ~panicked

(* C7: a submitted line with malformed quoting or escaping writes no       *)
(* event, and an error line is pushed after its echo                       *)
C7_MalformedNotDispatched ==
    [][(Submitted /\ had_error(last'.line))
       => /\ command_entered' = <<>>
          /\ Len(scrollback') = Len(scrollback) + 2
          /\ scrollback'[Len(scrollback')] = InvalidCommand]_vars

(* C8: Enter on an empty or whitespace-only line pushes one blank line and *)
(* leaves the history, history_index and the text field as they are,       *)
(* writing no event                                                        *)
C8_BlankEnter ==
    [][(Pressed("Enter") /\ trim_is_empty(last'.line))
       => /\ scrollback' = Append(scrollback, EmptyStr)
          /\ history' = history
          /\ history_index' = history_index
          /\ command_entered' = <<>>
          /\ buf' = buf]_vars

C8_Witness ==
    /\ last.keys = {"Enter"}
    /\ last.line = line_blank
    /\ buf = line_blank
    /\ scrollback = <<EmptyStr>>
    /\ Len(history) = 2
    /\ history_index = 1

(* the line of this step is the one word w: not empty, no whitespace *)
OneWord(w) == w # EmptyStr /\ \A i \in 1..Len(w) : ~is_whitespace(w[i])

(* C9: Tab on a single word w that is not in the completion cycle makes    *)
(* the cycle the registered commands with the prefix w and the text field  *)
(* the first of them; with no such command it changes neither              *)
C9_CommandCompletion ==
    [][(Pressed("Tab") /\ OneWord(buf) /\ ~contains(completions, buf))
       => LET matching == {c \in commands : starts_with(c, buf)}
          IN  IF matching # {}
              THEN /\ Range(completions') = matching
                   /\ Len(completions') = Cardinality(matching)
                   /\ buf' = completions'[1]
              ELSE /\ buf' = buf
                   /\ completions' = completions]_vars

C9_Witness ==
    /\ last.keys = {"Tab"}
    /\ last.line = line_lo
    /\ completions = <<cmd_load, cmd_log>>
    /\ buf = cmd_load

(* C10: Tab on a line whose last word is the entry at position i of the    *)
(* completion cycle of n entries puts the entry at position (i + 1) mod n  *)
(* in the place of the last word and leaves the cycle as it is             *)
C10_CycleContinues ==
    [][Pressed("Tab")
       => LET words == split_whitespace(buf)
              n == Len(completions)
          IN  \A i \in 0..(n - 1) :
                 (words # <<>> /\ At(completions, i) = words[Len(words)])
                 => /\ buf' = fold_words(Front(words)) \o At(completions, (i + 1) % n)
                    /\ completions' = completions]_vars

(* the frame of this step edited the text field, no key of the console pressed *)
Typed == last'.keys = {} /\ last'.events = <<>> /\ last'.line # buf

(* C11: a frame with a key press other than Tab, typing included, leaves  *)
(* the completion cycle empty                                             *)
C11_KeyPressResets ==
    [][((last'.keys # {} /\ "Tab" \notin last'.keys) \/ Typed)
       => completions' = <<>>]_vars

(* C12: no handler panics, whatever the registry, the argument            *)
(* completions and the line                                               *)
C12_NoPanic == ~panicked

(* C17: Tab on an empty line makes the completion cycle the registered    *)
(* command names and the text field the first of them, without a panic,   *)
(* whatever the registry                                                  *)
C17_EmptyLineCompletion ==
    [][(Pressed("Tab") /\ last'.line = EmptyStr)
       => /\ ~panicked'
          /\ completions' = command_keys(commands)
          /\ commands # {} => buf' = At(command_keys(commands), 0)]_vars

(* the words of the line the Tab of this step found, and its last word *)
LineWords == split_whitespace(last'.line)

TargetWord == IF LineWords = <<>> THEN EmptyStr ELSE LineWords[Len(LineWords)]

(* C18: Tab on a line of a registered command that ends in a space, the   *)
(* command having candidates and the last word not in the cycle, appends  *)
(* the first candidate to the line as it was and makes the cycle the      *)
(* candidate list of the command                                          *)
C18_FreshArgument ==
    [][(/\ Pressed("Tab")
        /\ ends_with_space(last'.line)
        /\ LineWords # <<>>
        /\ LineWords[1] \in commands
        /\ LineWords[1] \in DOMAIN arg_completions
        /\ arg_completions[LineWords[1]] # <<>>
        /\ ~contains(completions, TargetWord))
       => /\ buf' = last'.line \o At(arg_completions[LineWords[1]], 0)
          /\ completions' = arg_completions[LineWords[1]]]_vars

(* C19: Tab on a line with a space whose last word is not in the cycle    *)
(* changes neither the text field nor the cycle when the first word is no *)
(* registered command or has no candidates                                *)
C19_NoCandidatesNoOp ==
    [][(/\ Pressed("Tab")
        /\ contains_space(last'.line)
        /\ ~contains(completions, TargetWord)
        /\ \/ LineWords = <<>>
           \/ LineWords[1] \notin commands
           \/ LineWords[1] \notin DOMAIN arg_completions
           \/ arg_completions[LineWords[1]] = <<>>)
       => /\ buf' = buf
          /\ completions' = completions]_vars

(* C13: once every Startup system has run, in whatever order the chains   *)
(* allow, every command added is registered and the trie holds exactly    *)
(* the keys of the registry                                               *)
C13_TrieMatchesRegistry ==
    StartupDone => (commands = DOMAIN pending /\ commands_trie = commands)

C13_Witness ==
    /\ StartupDone
    /\ commands = {cmd_list, cmd_load, cmd_log}
    /\ commands_trie = commands

(* the keyboard events of the tick of this step hold a press of a         *)
(* configured toggle key                                                  *)
TogglePressed ==
    \E i \in 1..Len(last'.events) :
        /\ last'.events[i].state = "Pressed"
        /\ last'.events[i].key_code \in Range(config_keys)

(* C14: a tick flips the open flag, once, when one of its keyboard events *)
(* is a press of a configured toggle key and the console is open or no    *)
(* other widget wants the keyboard; no other tick changes the flag        *)
C14_ToggleOnPress ==
    [][open' = IF TogglePressed /\ (open \/ ~last'.wants) THEN ~open ELSE open]_vars

C14_Witness ==
    /\ open
    /\ ~last.wants
    /\ last.events = <<KeyboardInput("Backquote", "Pressed"),
                       KeyboardInput("Backquote", "Pressed")>>

(* the scrollback after the step is the one before, then the echo of the  *)
(* submitted line, then nothing but error lines                           *)
EchoThenErrors ==
    /\ Len(scrollback') > Len(scrollback)
    /\ SubSeq(scrollback', 1, Len(scrollback) + 1)
          = Append(scrollback, symbol \o last'.line)
    /\ \A i \in (Len(scrollback) + 2)..Len(scrollback') : scrollback'[i] = InvalidCommand

(* C15, as stated: on every non-blank submission the echo comes before    *)
(* any error line, and the line is at history index 1 with history_index  *)
(* 0, whether the command is known, unknown or the line has no token      *)
C15_EchoInsertDispatch ==
    [][Submitted
       => /\ EchoThenErrors
          /\ Len(history') >= 2
          /\ At(history', 1) = into_styled(last'.line)
          /\ history_index' = 0]_vars

(* C15, amended: the same, the line being at history index 1 when         *)
(* history_size is at least 1; with history_size 0 the inserted line is   *)
(* the entry evicted and the history holds the live slot alone            *)
C15_EchoInsertDispatchSized ==
    [][Submitted
       => /\ EchoThenErrors
          /\ IF history_size >= 1
             THEN Len(history') >= 2 /\ At(history', 1) = into_styled(last'.line)
             ELSE history' = history
          /\ history_index' = 0]_vars

C15_Witness ==
    /\ last.keys = {"Enter"}
    /\ last.line = line_hash
    /\ history_size = 1
    /\ history = <<EmptyStr, line_hash>>
    /\ scrollback = <<symbol \o line_hash>>
    /\ command_entered = <<>>

(* C16: a frame with Up or Down pressed leaves the scrollback and the     *)
(* past submissions at indices 1..len-1 as they are and writes no event;  *)
(* slot 0 changes only on Up from index 0 with a non-blank line, to that  *)
(* line.  The completion cycle is left as it is or emptied by the reset   *)
(* of the frame.                                                          *)
C16_NavigationFrame ==
    [][(Pressed("ArrowUp") \/ Pressed("ArrowDown"))
       => /\ scrollback' = scrollback
          /\ command_entered' = <<>>
          /\ Tail(history') = Tail(history)
          /\ history'[1] # history[1]
               => /\ Pressed("ArrowUp")
                  /\ history_index = 0
                  /\ ~trim_is_empty(buf)
                  /\ history'[1] = into_styled(buf)
          /\ completions' \in {completions, <<>>}
          /\ ~panicked']_vars

C16_Witness ==
    /\ last.keys = {"ArrowUp"}
    /\ last.index = 0
    /\ history_index = 1
    /\ history = <<line_esc, line_foo>>
    /\ buf = line_foo
    /\ scrollback = <<symbol \o line_foo, InvalidCommand>>

(* the keys of queue handled one frame each, in their order, from s, with *)
(* the keys d held down                                                   *)
RECURSIVE OneAtATime(_, _, _)
OneAtATime(s, queue, d) ==
    IF queue = <<>> \/ s.panicked THEN s
    ELSE OneAtATime(console_ui([s EXCEPT !.returned = FALSE],
                               [keys |-> {queue[1]}, queue |-> <<queue[1]>>,
                                typed |-> FALSE, text |-> EmptyStr, down |-> d,
                                events |-> <<>>, wants |-> TRUE]),
                    Tail(queue), d)

(* C20: a frame with several keys pressed leaves the state that handling  *)
(* them one at a time, in the order of their arrival, leaves              *)
C20_ArrivalOrder ==
    [][Len(last'.queue) >= 2
       => \E d \in Downs :
            \E r \in {OneAtATime([buf |-> buf, scrollback |-> scrollback,
                                   history |-> history, history_index |-> history_index,
                                   completions |-> completions, events |-> <<>>,
                                   panicked |-> FALSE, returned |-> FALSE],
                                  last'.queue, d)} :
                /\ buf' = r.buf
                /\ scrollback' = r.scrollback
                /\ history' = r.history
                /\ history_index' = r.history_index
                /\ completions' = r.completions
                /\ command_entered' = r.events
                /\ panicked' = r.panicked]_vars

(* C21: the lines of the PrintConsoleLine events received are pushed at   *)
(* the end of the scrollback as they are and in their order, the console  *)
(* open or closed; the lines before them stay as they were                *)
C21_PrintAppends ==
    [][last'.printed # <<>>
       => /\ scrollback' = scrollback \o last'.printed
          /\ open' = open
          /\ buf' = buf
          /\ history' = history]_vars

C21_Witness ==
    /\ ~open
    /\ last.printed = <<line_esc, line_ok>>
    /\ scrollback = <<symbol \o line_log_h_3, line_esc, line_ok>>

(* C22: with history_index 0 and a blank line in the text field, Up and   *)
(* then Down leave the text field blank                                   *)
C22_BlankLineReturns ==
    [][(/\ last.keys = {"ArrowUp"}
        /\ last.index = 0
        /\ trim_is_empty(last.line)
        /\ Pressed("ArrowDown"))
       => trim_is_empty(buf')]_vars

(* C23: the k-th Tab in a row, the first of them having made the cycle of *)
(* n candidates, leaves the cycle as it is and shows its candidate at     *)
(* position (k - 1) mod n as the last word of the line: every candidate   *)
(* in n presses, the first again after them                               *)
C23_CycleReachesAll ==
    [][(Pressed("Tab") /\ last'.run >= 2)
       => LET n == Len(completions)
              words == split_whitespace(buf')
          IN  /\ completions' = completions
              /\ words # <<>>
              /\ words[Len(words)] = At(completions, (last'.run - 1) % n)]_vars

(* C24: Tab on a line without a space, evaluated against a clone of the   *)
(* configuration, gives the cycle and the line that the configuration it  *)
(* was cloned from gives: all command names for an empty line, the names  *)
(* that the original's trie holds with the line as prefix otherwise       *)
C24_CloneCompletesAlike ==
    [][(/\ last'.cloned
        /\ Pressed("Tab")
        /\ ~contains_space(last'.line)
        /\ ~contains(completions, TargetWord))
       => \E found \in {IF TargetWord = EmptyStr THEN command_keys(commands)
                        ELSE predictive_search(last'.original, TargetWord)} :
            IF found # <<>>
            THEN completions' = found /\ buf' = At(found, 0)
            ELSE completions' = completions /\ buf' = last'.line]_vars

====
